---- MODULE Spec2Model ----
(***************************************************************************)
(* garden_interchain_analysis: the order sync handler (backend/index.ts,   *)
(* getOrders) and the block-timestamp backfill script (updateTimestamps).  *)
(*                                                                         *)
(* The analysis store is a PostgreSQL table, order_analysis.  getOrders    *)
(* sends every statement with analysisPool.query: the pool runs a          *)
(* statement on its idle client, so statements that do not overlap in time *)
(* all run on the same client, whichever handler sent them, and an open    *)
(* transaction is a property of that client (txn), not of a handler.  The  *)
(* backfill script is another process with a pool of its own: its          *)
(* statements autocommit and see committed rows only.  The App component   *)
(* (frontend) posts to the handler and shows what comes back.              *)
(***************************************************************************)
EXTENDS Integers, Sequences, FiniteSets, TLC

\* SQL NULL and JavaScript null; a present value v is <<v>>.
NULL == <<>>
Val(v) == <<v>>

\* ---- bounds ----
MaxReq == 2        \* getOrders requests served
MaxBf == 2         \* runs of the backfill script
MaxFaults == 1     \* statements or RPC calls that raise an error
MaxRows == 2       \* rows the table holds at start
MaxFetch == 2      \* requests of the App that await their response

Req == 1..MaxReq
Bf == 1..MaxBf

VARIABLES
  swaps,                  \* stage_db: swap_id -> its two tx hashes
  order_analysis,         \* committed rows of the analysis table
  order_analysis_id_seq,  \* committed next value of the id sequence
  txn,                    \* transaction state of analysisPool's client
  req,                    \* getOrders invocations
  bf,                     \* updateTimestamps runs
  faults,                 \* errors raised so far
  obs,                    \* observations of the run, read by the properties only
  app                     \* the App component: its state hooks and pending fetches

vars == <<swaps, order_analysis, order_analysis_id_seq, txn, req, bf, faults, obs, app>>

\* ---- stage_db (source store), read only ----
SrcChain == "ethereum_sepolia"
DstChain == "starknet_sepolia"

create_orders ==
  { [create_id |-> "O1", source_chain |-> SrcChain, destination_chain |-> DstChain, created_at |-> 1],
    [create_id |-> "O2", source_chain |-> SrcChain, destination_chain |-> DstChain, created_at |-> 3] }

matched_orders ==
  { [create_order_id |-> "O1", source_swap_id |-> "S1", destination_swap_id |-> "D1"],
    [create_order_id |-> "O2", source_swap_id |-> "S2", destination_swap_id |-> "D2"] }

SwapIds == {"S1", "D1", "S2", "D2"}
HashValues == {NULL, Val("0xhash")}
SwapRows == [redeem_tx_hash : HashValues, refund_tx_hash : HashValues]

\* (redeem_tx_hash IS NOT NULL OR refund_tx_hash IS NOT NULL)
LegCompletedBroken(s) == s.redeem_tx_hash # NULL \/ s.redeem_tx_hash # NULL
LegCompleted(s) == s.redeem_tx_hash # NULL \/ s.refund_tx_hash # NULL

\* The SELECT DISTINCT of getOrders, as the set of its result rows.
SelectOrdersExclusive(sw, source_chain, destination_chain, start_time, end_time) ==
  { [create_order_id |-> mo.create_order_id, source_swap_id |-> mo.source_swap_id,
     destination_swap_id |-> mo.destination_swap_id, created_at |-> co.created_at] :
      <<co, mo>> \in { <<c, m>> \in create_orders \X matched_orders :
          /\ c.create_id = m.create_order_id
          /\ m.source_swap_id \in DOMAIN sw
          /\ m.destination_swap_id \in DOMAIN sw
          /\ c.source_chain = source_chain
          /\ c.destination_chain = destination_chain
          /\ c.created_at > start_time /\ c.created_at < end_time
          /\ LegCompleted(sw[m.source_swap_id])
          /\ LegCompleted(sw[m.destination_swap_id]) } }
SelectOrders(sw, source_chain, destination_chain, start_time, end_time) ==
  { [create_order_id |-> mo.create_order_id, source_swap_id |-> mo.source_swap_id,
     destination_swap_id |-> mo.destination_swap_id, created_at |-> co.created_at] :
      <<co, mo>> \in { <<c, m>> \in create_orders \X matched_orders :
          /\ c.create_id = m.create_order_id
          /\ m.source_swap_id \in DOMAIN sw
          /\ m.destination_swap_id \in DOMAIN sw
          /\ c.source_chain = source_chain
          /\ c.destination_chain = destination_chain
          /\ c.created_at >= start_time /\ c.created_at <= end_time
          /\ LegCompleted(sw[m.source_swap_id])
          /\ LegCompleted(sw[m.destination_swap_id]) } }

\* Every order in which a finite set of rows can be returned.
RECURSIVE Orderings(_)
Orderings(S) ==
  IF S = {} THEN { <<>> }
  ELSE UNION { { <<x>> \o t : t \in Orderings(S \ {x}) } : x \in S }

\* ---- request bodies ----
\* An absent chain is "" and an absent time is 0: both are falsy in JavaScript.
NoChain == ""
NoTime == 0
\* A text that is no timestamp ("yesterday"): truthy in JavaScript, refused by
\* PostgreSQL as a parameter compared with created_at.
BadTime == -1
Bodies ==
  { [source_chain |-> SrcChain, destination_chain |-> DstChain, start_time |-> 1, end_time |-> 3],
    [source_chain |-> SrcChain, destination_chain |-> DstChain, start_time |-> 2, end_time |-> 3],
    [source_chain |-> DstChain, destination_chain |-> SrcChain, start_time |-> 1, end_time |-> 3],
    [source_chain |-> SrcChain, destination_chain |-> DstChain, start_time |-> 1, end_time |-> NoTime],
    [source_chain |-> SrcChain, destination_chain |-> DstChain, start_time |-> BadTime, end_time |-> 3] }

\* !source_chain || !destination_chain || !start_time || !end_time
MissingField(body) ==
  \/ body.source_chain = NoChain
  \/ body.destination_chain = NoChain
  \/ body.start_time = NoTime
  \/ body.end_time = NoTime

\* co.created_at BETWEEN $3 AND $4: a parameter that is no timestamp makes the
\* statement raise an error (invalid input syntax).
InvalidTime(body) == body.start_time = BadTime \/ body.end_time = BadTime

\* ---- the analysis store as analysisPool's client sees it ----
\* A row of order_analysis.  getOrders' INSERT names ten columns; a column it
\* does not name (chains, init block numbers) takes its default, NULL.
\* inserted_by is no column: it records the request whose INSERT made the row
\* (0 for a row the table held at start) and only the properties read it.
NewRow(id, row, by) ==
  [id |-> id, inserted_by |-> by, create_order_id |-> row.create_order_id,
   source_swap_id |-> row.source_swap_id, destination_swap_id |-> row.destination_swap_id,
   created_at |-> row.created_at,
   source_chain |-> NULL, destination_chain |-> NULL,
   user_init_block_number |-> NULL, cobi_init_block_number |-> NULL,
   user_init |-> NULL, cobi_init |-> NULL,
   user_redeem |-> NULL, cobi_redeem |-> NULL, user_refund |-> NULL, cobi_refund |-> NULL]

NoTxn == [status |-> "none", owner |-> 0, del |-> {}, ins |-> {}, restarted |-> FALSE, seqNext |-> 0]

Db == [tbl |-> order_analysis, seq |-> order_analysis_id_seq, txn |-> txn]

Ids(rows) == { r.id : r \in rows }

\* The rows a statement of the client sees: committed rows it has not deleted
\* in its open transaction, and the rows that transaction inserted.
Visible(db) ==
  IF db.txn.status = "none" THEN db.tbl
  ELSE { r \in db.tbl : r.id \notin db.txn.del } \cup db.txn.ins

\* A statement that raises an error changes nothing and, inside a transaction,
\* aborts it: every later statement but COMMIT and ROLLBACK is then refused.
Raise(db) ==
  IF db.txn.status = "none" THEN db ELSE [db EXCEPT !.txn.status = "aborted"]

\* Each statement yields the store after it and whether it raised an error.
\* BEGIN inside a transaction is a warning, not an error.
SqlBegin(db, who) ==
  CASE db.txn.status = "none" ->
         [db |-> [db EXCEPT !.txn = [NoTxn EXCEPT !.status = "open", !.owner = who]], err |-> FALSE]
    [] db.txn.status = "open" -> [db |-> db, err |-> FALSE]
    [] OTHER -> [db |-> db, err |-> TRUE]

\* DELETE FROM order_analysis
SqlDeleteNothing(db) ==
  IF db.txn.status = "aborted" THEN [db |-> db, err |-> TRUE] ELSE [db |-> db, err |-> FALSE]
SqlDeleteAll(db) ==
  CASE db.txn.status = "none" -> [db |-> [db EXCEPT !.tbl = {}], err |-> FALSE]
    [] db.txn.status = "open" ->
         [db |-> [db EXCEPT !.txn.del = @ \cup Ids(db.tbl), !.txn.ins = {}], err |-> FALSE]
    [] OTHER -> [db |-> db, err |-> TRUE]

\* ALTER SEQUENCE order_analysis_id_seq RESTART WITH 1 (transactional)
SqlRestartSeq(db) ==
  CASE db.txn.status = "none" -> [db |-> [db EXCEPT !.seq = 1], err |-> FALSE]
    [] db.txn.status = "open" ->
         [db |-> [db EXCEPT !.txn.restarted = TRUE, !.txn.seqNext = 1], err |-> FALSE]
    [] OTHER -> [db |-> db, err |-> TRUE]

\* nextval: from the restarted sequence of the open transaction if it has
\* one, else from the committed sequence, which no rollback rewinds.
NextVal(db) ==
  IF db.txn.status = "open" /\ db.txn.restarted THEN db.txn.seqNext ELSE db.seq
AfterNextVal(db) ==
  IF db.txn.status = "open" /\ db.txn.restarted
  THEN [db EXCEPT !.txn.seqNext = @ + 1]
  ELSE [db EXCEPT !.seq = @ + 1]

\* INSERT INTO order_analysis (...) VALUES ($1, $2, $3, $4, NULL, ...): id is
\* SERIAL PRIMARY KEY, so a row whose id is taken is refused.
SqlInsert(db, row, by) ==
  LET id == NextVal(db)
      used == AfterNextVal(db)
  IN CASE db.txn.status = "aborted" -> [db |-> db, err |-> TRUE]
       [] id \in Ids(Visible(db)) -> [db |-> Raise(used), err |-> TRUE]
       [] db.txn.status = "none" ->
            [db |-> [used EXCEPT !.tbl = @ \cup {NewRow(id, row, by)}], err |-> FALSE]
       [] OTHER ->
            [db |-> [used EXCEPT !.txn.ins = @ \cup {NewRow(id, row, by)}], err |-> FALSE]

\* COMMIT: of an aborted transaction it is a rollback, outside one a warning.
SqlCommit(db) ==
  IF db.txn.status = "open"
  THEN [tbl |-> Visible(db),
        seq |-> IF db.txn.restarted THEN db.txn.seqNext ELSE db.seq,
        txn |-> NoTxn]
  ELSE [db EXCEPT !.txn = NoTxn]

\* ROLLBACK
SqlRollbackKeepsTxn(db) == db
SqlRollback(db) == [db EXCEPT !.txn = NoTxn]

SetDb(db) ==
  /\ order_analysis' = db.tbl
  /\ order_analysis_id_seq' = db.seq
  /\ txn' = db.txn

\* ---- getOrders: one invocation per request r ----
NoRes == [status |-> 0, text |-> "", count |-> 0]
IdleReq == [pc |-> "idle", body |-> CHOOSE b \in Bodies : TRUE, rows |-> <<>>, i |-> 1, res |-> NoRes]

\* Whether the next statement raises an injected error.
Fault == {FALSE} \cup (IF faults < MaxFaults THEN {TRUE} ELSE {})
Count(fail) == faults' = IF fail THEN faults + 1 ELSE faults

\* A write of r is in r's own transaction iff the client's open transaction
\* was opened by r's BEGIN.
OwnTxn(r) == txn.status = "open" /\ txn.owner = r

NoteWrite(r) ==
  obs' = [obs EXCEPT !.stray[r] = @ \/ ~OwnTxn(r),
                     !.writers = IF txn.status = "open" THEN @ \cup {r} ELSE @]

\* A COMMIT or ROLLBACK by r ends the client's transaction, with the writes of
\* every handler that wrote in it.
NoteEnd(r, tblAfter) ==
  obs' = [obs EXCEPT !.crossed = @ \/ (txn.status # "none" /\ obs.writers \ {r} # {}),
                     !.writers = IF txn.status # "none" THEN {} ELSE @,
                     !.after[r] = tblAfter]

\* The request arrives; a body with a missing field is answered 400 at once.
Arrive(r) ==
  /\ req[r].pc = "idle"
  /\ IF r = 1 THEN TRUE ELSE req[r - 1].pc # "idle"
  /\ \E body \in Bodies :
       IF MissingField(body)
       THEN req' = [req EXCEPT ![r] = [@ EXCEPT !.pc = "done", !.body = body,
                      !.res = [status |-> 400, text |-> "All fields are required", count |-> 0]]]
       ELSE req' = [req EXCEPT ![r] = [@ EXCEPT !.pc = "begin", !.body = body]]
  /\ obs' = [obs EXCEPT !.before[r] = order_analysis, !.after[r] = order_analysis,
                        !.prior[r] = { q \in Req : req[q].pc \in {"done", "crashed"} }]
  /\ UNCHANGED <<swaps, order_analysis, order_analysis_id_seq, txn, bf, faults, app>>

\* await analysisPool.query('BEGIN')
Begin(r) ==
  /\ req[r].pc = "begin"
  /\ \E fail \in Fault :
       LET out == IF fail THEN [db |-> Raise(Db), err |-> TRUE] ELSE SqlBegin(Db, r)
       IN /\ SetDb(out.db)
          /\ req' = [req EXCEPT ![r].pc = IF out.err THEN "rollback" ELSE "delete"]
          /\ Count(fail)
  /\ UNCHANGED <<swaps, bf, obs, app>>

\* await analysisPool.query('DELETE FROM order_analysis')
Delete(r) ==
  /\ req[r].pc = "delete"
  /\ \E fail \in Fault :
       LET out == IF fail THEN [db |-> Raise(Db), err |-> TRUE] ELSE SqlDeleteAll(Db)
       IN /\ SetDb(out.db)
          /\ req' = [req EXCEPT ![r].pc = IF out.err THEN "rollback" ELSE "alter"]
          /\ IF out.err THEN UNCHANGED obs ELSE NoteWrite(r)
          /\ Count(fail)
  /\ UNCHANGED <<swaps, bf, app>>

\* await analysisPool.query('ALTER SEQUENCE order_analysis_id_seq RESTART WITH 1')
Alter(r) ==
  /\ req[r].pc = "alter"
  /\ \E fail \in Fault :
       LET out == IF fail THEN [db |-> Raise(Db), err |-> TRUE] ELSE SqlRestartSeq(Db)
       IN /\ SetDb(out.db)
          /\ req' = [req EXCEPT ![r].pc = IF out.err THEN "rollback" ELSE "read"]
          /\ IF out.err THEN UNCHANGED obs ELSE NoteWrite(r)
          /\ Count(fail)
  /\ UNCHANGED <<swaps, bf, app>>

\* const result = await stagePool.query(query, [...]); rows come in any order.
Read(r) ==
  /\ req[r].pc = "read"
  /\ \E fail \in Fault :
       /\ IF fail \/ InvalidTime(req[r].body)
          THEN req' = [req EXCEPT ![r].pc = "rollback"]
          ELSE \E rows \in Orderings(SelectOrders(swaps, req[r].body.source_chain,
                          req[r].body.destination_chain, req[r].body.start_time,
                          req[r].body.end_time)) :
                 req' = [req EXCEPT ![r] = [@ EXCEPT !.rows = rows, !.i = 1,
                           !.pc = IF rows = <<>> THEN "commit" ELSE "insert"]]
       /\ Count(fail)
  /\ UNCHANGED <<swaps, order_analysis, order_analysis_id_seq, txn, bf, obs, app>>

\* for (const row of result.rows) await analysisPool.query(INSERT ...)
Insert(r) ==
  /\ req[r].pc = "insert"
  /\ \E fail \in Fault :
       LET out == IF fail THEN [db |-> Raise(Db), err |-> TRUE]
                  ELSE SqlInsert(Db, req[r].rows[req[r].i], r)
       IN /\ SetDb(out.db)
          /\ req' = [req EXCEPT ![r] =
                IF out.err THEN [@ EXCEPT !.pc = "rollback"]
                ELSE [@ EXCEPT !.i = @ + 1,
                               !.pc = IF req[r].i = Len(req[r].rows) THEN "commit" ELSE "insert"]]
          /\ IF out.err THEN UNCHANGED obs ELSE NoteWrite(r)
          /\ Count(fail)
  /\ UNCHANGED <<swaps, bf, app>>

\* await analysisPool.query('COMMIT'); res.json({message: ...rowCount...}).  A
\* COMMIT that raises an error leaves no transaction behind.
Commit(r) ==
  /\ req[r].pc = "commit"
  /\ \E fail \in Fault :
       LET db == IF fail THEN SqlRollback(Db) ELSE SqlCommit(Db)
       IN /\ SetDb(db)
          /\ req' = [req EXCEPT ![r] =
                IF fail THEN [@ EXCEPT !.pc = "rollback"]
                ELSE [@ EXCEPT !.pc = "done",
                        !.res = [status |-> 200, text |-> "Successfully stored",
                                 count |-> Len(req[r].rows)]]]
          /\ NoteEnd(r, db.tbl)
          /\ Count(fail)
  /\ UNCHANGED <<swaps, bf, app>>

\* catch: await analysisPool.query('ROLLBACK'); res.status(500).json(...).  A
\* ROLLBACK that raises an error rejects the handler's promise: no response.
Rollback(r) ==
  /\ req[r].pc = "rollback"
  /\ \E fail \in Fault :
       LET db == SqlRollback(Db)
       IN /\ SetDb(db)
          /\ req' = [req EXCEPT ![r] =
                IF fail THEN [@ EXCEPT !.pc = "crashed"]
                ELSE [@ EXCEPT !.pc = "done",
                        !.res = [status |-> 500, text |-> "Database operation failed",
                                 count |-> 0]]]
          /\ NoteEnd(r, db.tbl)
          /\ Count(fail)
  /\ UNCHANGED <<swaps, bf, app>>

getOrders(r) ==
  \/ Arrive(r) \/ Begin(r) \/ Delete(r) \/ Alter(r) \/ Read(r)
  \/ Insert(r) \/ Commit(r) \/ Rollback(r)

\* ---- the chain timestamp resolver ----
AlchemyChains == {"arbitrum_sepolia", "ethereum_sepolia", "base_sepolia"}
HexChains == {"monad_testnet", "hyperliquid_testnet"}
SupportedChains == AlchemyChains \cup {"starknet_sepolia"} \cup HexChains

\* Five hours thirty minutes, in milliseconds.
istOffset == 19800000

\* The text "YYYY-MM-DD hh:mm:ss.mmm+05:30": the civil time of the instant
\* moved by the IST offset, in milliseconds, and the zone suffix.
formatTimestampToIST(timestampSeconds) ==
  [civil |-> timestampSeconds * 1000 + istOffset, zone |-> "+05:30"]

\* parseInt(text, 16) of a hexadecimal numeral, given as its digits.
RECURSIVE parseIntHex(_)
parseIntHex(digits) ==
  IF digits = <<>> THEN 0
  ELSE 16 * parseIntHex(SubSeq(digits, 1, Len(digits) - 1)) + digits[Len(digits)]

\* What one RPC call can come back with: an error (network, decoding), a
\* reply without a block, or a block whose timestamp is a number, or on the
\* eth_getBlockByNumber chains a hexadecimal numeral.  The fetch and
\* axios calls carry no timeout and no abort signal: one whose reply never
\* comes stays pending.
\* The timestamp field is <<n>> for a number n, the digits of a hexadecimal
\* numeral, or <<>> when the reply has none.
Seconds == { <<0>>, <<100>> }
HexSeconds == { <<0>>, <<6, 4>>, <<12, 8>> }
NoReply == [kind |-> "none", timestamp |-> <<>>]
Pending == [kind |-> "pending", timestamp |-> <<>>]
RpcReplies(chain) ==
  { [kind |-> "error", timestamp |-> <<>>], NoReply }
  \cup (IF chain \in AlchemyChains THEN {} ELSE { Pending })
  \cup { [kind |-> "block", timestamp |-> t] :
           t \in IF chain \in HexChains THEN HexSeconds ELSE Seconds }

\* A block number column: NULL and 0 are falsy.
Truthy(n) == n # NULL /\ n[1] # 0

\* Whether getTimestampForBlock(chain, blockNumber) sends an RPC call.
Calls(chain, blockNumber) ==
  Truthy(blockNumber) /\ chain # NULL /\ chain[1] \in SupportedChains

\* getTimestampForBlock's result given the reply to its call: the block's
\* timestamp in seconds, or NULL.  Every branch catches its errors.
getTimestampForBlock(chain, blockNumber, reply) ==
  CASE ~Truthy(blockNumber) -> NULL
    [] chain = NULL \/ chain[1] \notin SupportedChains -> NULL
    [] reply.kind # "block" -> NULL
    [] reply.timestamp = <<>> -> NULL
    [] chain[1] \in HexChains ->
         IF reply.timestamp # <<0>> THEN Val(parseIntHex(reply.timestamp)) ELSE NULL
    [] OTHER -> IF reply.timestamp[1] # 0 THEN Val(reply.timestamp[1]) ELSE NULL

\* The replies the call for (chain, blockNumber) can get; when no call is
\* sent there is nothing to choose.
RepliesFor(chain, blockNumber) ==
  IF Calls(chain, blockNumber) THEN RpcReplies(chain[1])
  ELSE { NoReply }

\* if (timestampSeconds) stamp = formatTimestampToIST(timestampSeconds)
Stamp(timestampSeconds) ==
  IF timestampSeconds # NULL /\ timestampSeconds[1] # 0
  THEN Val(formatTimestampToIST(timestampSeconds[1])) ELSE NULL

\* ---- updateTimestamps: one run of the script per b ----
COALESCEOverwrite(a, b) == IF b # NULL THEN b ELSE a
COALESCE(a, b) == IF a # NULL THEN a ELSE b

\* SELECT id, source_chain, destination_chain, user_init_block_number,
\* cobi_init_block_number FROM order_analysis WHERE user_init IS NULL OR
\* cobi_init IS NULL
SelectMissing(tbl) ==
  { [id |-> r.id, source_chain |-> r.source_chain, destination_chain |-> r.destination_chain,
     user_init_block_number |-> r.user_init_block_number,
     cobi_init_block_number |-> r.cobi_init_block_number] :
      r \in { x \in tbl : x.user_init = NULL \/ x.cobi_init = NULL } }

\* UPDATE order_analysis SET user_init = COALESCE(user_init, $1),
\* cobi_init = COALESCE(cobi_init, $2) WHERE id = $3
SqlUpdateInitAll(tbl, userInitTimestamp, cobiInitTimestamp, id) ==
  { [r EXCEPT !.user_init = COALESCE(r.user_init, userInitTimestamp),
              !.cobi_init = COALESCE(r.cobi_init, cobiInitTimestamp)] : r \in tbl }
SqlUpdateInitOnly(tbl, userInitTimestamp, cobiInitTimestamp, id) ==
  { [r EXCEPT !.user_init = COALESCE(r.user_init, userInitTimestamp),
              !.cobi_init = COALESCE(r.cobi_init, cobiInitTimestamp)] :
      r \in { x \in tbl : x.id = id } }
SqlUpdateInit(tbl, userInitTimestamp, cobiInitTimestamp, id) ==
  { IF r.id = id
    THEN [r EXCEPT !.user_init = COALESCE(r.user_init, userInitTimestamp),
                   !.cobi_init = COALESCE(r.cobi_init, cobiInitTimestamp)]
    ELSE r : r \in tbl }

\* A row deleted by the client's unfinished transaction is locked: an UPDATE
\* of it from another session waits for that transaction to end.
Locked(id) == txn.status # "none" /\ id \in txn.del

\* The answers the resolver has given, per chain and block number.
NoteAnswer(chain, blockNumber, timestampSeconds) ==
  obs' = IF Truthy(blockNumber)
         THEN [obs EXCEPT !.answers = @ \cup { <<chain, blockNumber, timestampSeconds>> }]
         ELSE obs

\* if (userInitTimestamp || cobiInitTimestamp)
ShouldUpdateBoth(userInitTimestamp, cobiInitTimestamp) ==
  userInitTimestamp # NULL /\ cobiInitTimestamp # NULL
ShouldUpdate(userInitTimestamp, cobiInitTimestamp) ==
  userInitTimestamp # NULL \/ cobiInitTimestamp # NULL

IdleBf == [pc |-> "idle", rows |-> <<>>, i |-> 1, userInitTimestamp |-> NULL,
           cobiInitTimestamp |-> NULL, calls |-> {}, outcome |-> ""]

\* const result = await analysisPool.query(query)
Select(b) ==
  /\ bf[b].pc = "idle"
  /\ IF b = 1 THEN TRUE ELSE bf[b - 1].pc # "idle"
  /\ \E fail \in Fault :
       /\ IF fail
          THEN bf' = [bf EXCEPT ![b] = [@ EXCEPT !.pc = "finally", !.outcome = "error"]]
          ELSE \E rows \in Orderings(SelectMissing(order_analysis)) :
                 bf' = [bf EXCEPT ![b] =
                   IF rows = <<>> THEN [@ EXCEPT !.pc = "finally", !.outcome = "completed"]
                   ELSE [@ EXCEPT !.rows = rows, !.i = 1, !.pc = "user"]]
       /\ Count(fail)
  /\ obs' = [obs EXCEPT !.ran[b] = { a \in Bf : bf[a].pc = "ended" }]
  /\ UNCHANGED <<swaps, order_analysis, order_analysis_id_seq, txn, req, app>>

\* if (user_init_block_number) { ... getTimestampForBlock(source_chain, ...) }
ResolveUser(b) ==
  /\ bf[b].pc = "user"
  /\ LET row == bf[b].rows[bf[b].i]
     IN \E reply \in RepliesFor(row.source_chain, row.user_init_block_number) :
          LET timestampSeconds ==
                getTimestampForBlock(row.source_chain, row.user_init_block_number, reply)
          IN IF reply = Pending
             THEN bf' = [bf EXCEPT ![b].pc = "awaiting"] /\ UNCHANGED obs
             ELSE /\ bf' = [bf EXCEPT ![b] = [@ EXCEPT
                       !.userInitTimestamp = Stamp(timestampSeconds),
                       !.cobiInitTimestamp = NULL,
                       !.calls = IF Truthy(row.user_init_block_number) THEN {"user"} ELSE {},
                       !.pc = "cobi"]]
                  /\ NoteAnswer(row.source_chain, row.user_init_block_number, timestampSeconds)
  /\ UNCHANGED <<swaps, order_analysis, order_analysis_id_seq, txn, req, faults, app>>

\* if (cobi_init_block_number) { ... getTimestampForBlock(destination_chain, ...) }
ResolveCobi(b) ==
  /\ bf[b].pc = "cobi"
  /\ LET row == bf[b].rows[bf[b].i]
     IN \E reply \in RepliesFor(row.destination_chain, row.cobi_init_block_number) :
          LET timestampSeconds ==
                getTimestampForBlock(row.destination_chain, row.cobi_init_block_number, reply)
          IN IF reply = Pending
             THEN bf' = [bf EXCEPT ![b].pc = "awaiting"] /\ UNCHANGED obs
             ELSE /\ bf' = [bf EXCEPT ![b] = [@ EXCEPT
                       !.cobiInitTimestamp = Stamp(timestampSeconds),
                       !.calls = @ \cup (IF Truthy(row.cobi_init_block_number) THEN {"cobi"} ELSE {}),
                       !.pc = "update"]]
                  /\ NoteAnswer(row.destination_chain, row.cobi_init_block_number, timestampSeconds)
  /\ UNCHANGED <<swaps, order_analysis, order_analysis_id_seq, txn, req, faults, app>>

\* The loop's next iteration, or the end of the loop.
NextRowStop(b) ==
  IF bf[b].userInitTimestamp = NULL \/ bf[b].cobiInitTimestamp = NULL
  THEN [bf[b] EXCEPT !.pc = "finally", !.outcome = "error"]
  ELSE IF bf[b].i = Len(bf[b].rows)
       THEN [bf[b] EXCEPT !.pc = "finally", !.outcome = "completed"]
       ELSE [bf[b] EXCEPT !.pc = "user", !.i = @ + 1]
NextRow(b) ==
  IF bf[b].i = Len(bf[b].rows)
  THEN [bf[b] EXCEPT !.pc = "finally", !.outcome = "completed"]
  ELSE [bf[b] EXCEPT !.pc = "user", !.i = @ + 1]

\* if (userInitTimestamp || cobiInitTimestamp) await analysisPool.query(UPDATE ...)
Update(b) ==
  /\ bf[b].pc = "update"
  /\ LET row == bf[b].rows[bf[b].i]
     IN IF ShouldUpdate(bf[b].userInitTimestamp, bf[b].cobiInitTimestamp)
        THEN /\ ~Locked(row.id)
             /\ \E fail \in Fault :
                  /\ IF fail
                     THEN /\ bf' = [bf EXCEPT ![b] = [@ EXCEPT !.pc = "finally", !.outcome = "error"]]
                          /\ UNCHANGED order_analysis
                     ELSE /\ order_analysis' = SqlUpdateInit(order_analysis,
                                 bf[b].userInitTimestamp, bf[b].cobiInitTimestamp, row.id)
                          /\ bf' = [bf EXCEPT ![b] = NextRow(b)]
                  /\ Count(fail)
        ELSE /\ bf' = [bf EXCEPT ![b] = NextRow(b)]
             /\ UNCHANGED <<order_analysis, faults>>
  /\ UNCHANGED <<swaps, order_analysis_id_seq, txn, req, obs, app>>

\* finally { await analysisPool.end() }
Finally(b) ==
  /\ bf[b].pc = "finally"
  /\ bf' = [bf EXCEPT ![b].pc = "ended"]
  /\ obs' = [obs EXCEPT !.left[b] = order_analysis]
  /\ UNCHANGED <<swaps, order_analysis, order_analysis_id_seq, txn, req, faults, app>>

updateTimestamps(b) ==
  \/ Select(b) \/ ResolveUser(b) \/ ResolveCobi(b) \/ Update(b) \/ Finally(b)

\* ---- the App component (frontend) ----
\* JavaScript undefined, the value of a field the response body does not
\* have: neither null nor a value.
Undefined == <<"undefined", "undefined">>

\* A subset of the options of the two selects, and of the dates to pick.
ChainOptions == {"starknet_sepolia", "ethereum_sepolia"}
Dates == { Val("2025-05-03T00:00:00.000Z") }

\* date.toISOString().replace('T', ' ').substring(0, 19) + '+00': the instant
\* without its milliseconds, with the zone suffix; '' (here NULL) for no date.
formatDate(date) ==
  IF date = NULL THEN NULL ELSE Val([instant |-> date[1], cut |-> 19, zone |-> "+00"])

\* What a fetch can come back with: a response with a JSON body, ok or not,
\* or a failure (fetch rejects, or the body is no JSON).  getOrders answers
\* {message} or {error}; the App also reads total_orders and averages.
Data(message, total_orders, averages, err) ==
  [message |-> message, total_orders |-> total_orders, averages |-> averages, error |-> err]
FetchResults ==
  { [kind |-> "response", ok |-> TRUE,
     data |-> Data(Val("Successfully stored"), Undefined, Undefined, Undefined)],
    [kind |-> "response", ok |-> TRUE,
     data |-> Data(Val("Successfully stored"), Val("2"), Val("averages"), Undefined)],
    [kind |-> "response", ok |-> FALSE,
     data |-> Data(Undefined, Undefined, Undefined, Val("All fields are required"))],
    [kind |-> "response", ok |-> FALSE,
     data |-> Data(Undefined, Undefined, Undefined, Val("Database operation failed"))],
    [kind |-> "response", ok |-> FALSE,
     data |-> Data(Undefined, Undefined, Undefined, Undefined)],
    [kind |-> "failure", ok |-> FALSE,
     data |-> Data(Undefined, Undefined, Undefined, Undefined)] }

\* data.error || 'Failed to process request'
ErrorText(data) ==
  IF data.error \in {Undefined, NULL} THEN Val("Failed to process request") ELSE data.error

InitApp ==
  [sourceChain |-> "arbitrum_sepolia", destinationChain |-> "starknet_sepolia",
   startDate |-> NULL, endDate |-> NULL, message |-> NULL, error |-> NULL,
   totalOrders |-> NULL, averages |-> NULL, fetching |-> <<>>]

Programs == <<swaps, order_analysis, order_analysis_id_seq, txn, req, bf, faults, obs>>

\* onChange={(e) => setSourceChain(e.target.value)}
setSourceChain(value) ==
  /\ app' = [app EXCEPT !.sourceChain = value]
  /\ UNCHANGED Programs

\* onChange={(e) => setDestinationChain(e.target.value)}
setDestinationChain(value) ==
  /\ app' = [app EXCEPT !.destinationChain = value]
  /\ UNCHANGED Programs

\* onChange={(date) => setStartDate(date)}
setStartDate(date) ==
  /\ app' = [app EXCEPT !.startDate = date]
  /\ UNCHANGED Programs

\* onChange={(date) => setEndDate(date)}
setEndDate(date) ==
  /\ app' = [app EXCEPT !.endDate = date]
  /\ UNCHANGED Programs

\* handleSubmit up to its await: the error of a missing date, or the fetch.
handleSubmit ==
  /\ IF app.startDate = NULL \/ app.endDate = NULL
     THEN app' = [app EXCEPT !.error = Val("Please select both start and end dates")]
     ELSE /\ Len(app.fetching) < MaxFetch
          /\ app' = [app EXCEPT !.fetching = Append(@,
                       [source_chain |-> app.sourceChain,
                        destination_chain |-> app.destinationChain,
                        start_time |-> formatDate(app.startDate),
                        end_time |-> formatDate(app.endDate)])]
  /\ UNCHANGED Programs

\* The state hooks after a fetch came back.
Settle(a, result) ==
  IF result.kind = "failure"
  THEN [a EXCEPT !.error = Val("Error connecting to backend"),
                 !.totalOrders = NULL, !.averages = NULL]
  ELSE IF result.ok
       THEN [a EXCEPT !.message = result.data.message,
                      !.totalOrders = result.data.total_orders,
                      !.averages = result.data.averages,
                      !.error = NULL]
       ELSE [a EXCEPT !.error = ErrorText(result.data),
                      !.totalOrders = NULL, !.averages = NULL]

\* handleSubmit from its await on, for one of the pending fetches.
Resume(k) ==
  /\ k \in 1..Len(app.fetching)
  /\ \E result \in FetchResults :
       app' = Settle([app EXCEPT !.fetching =
                        SubSeq(@, 1, k - 1) \o SubSeq(@, k + 1, Len(@))], result)
  /\ UNCHANGED Programs

App ==
  \/ \E value \in ChainOptions : setSourceChain(value)
  \/ \E value \in ChainOptions : setDestinationChain(value)
  \/ \E date \in Dates \cup {NULL} : setStartDate(date)
  \/ \E date \in Dates \cup {NULL} : setEndDate(date)
  \/ handleSubmit
  \/ \E k \in 1..MaxFetch : Resume(k)

\* ---- initial states ----
\* Rows the table can hold when the programs start: written by an earlier
\* deployment, with the chains and init block numbers the script reads.
OrderIdOf(k) == <<"O1", "O2", "O3", "O4">>[k]

Seed(sc, dc, ubn, cbn, ui, ci) ==
  [source_chain |-> sc, destination_chain |-> dc, user_init_block_number |-> ubn,
   cobi_init_block_number |-> cbn, user_init |-> ui, cobi_init |-> ci]

SyncSeeds ==
  { Seed(Val("ethereum_sepolia"), Val("monad_testnet"), Val(10), Val(20), NULL, NULL) }

BackfillSeeds ==
  { Seed(Val("ethereum_sepolia"), Val("monad_testnet"), Val(10), Val(20), NULL, NULL),
    Seed(Val("base_sepolia"), Val("hyperliquid_testnet"), Val(12), Val(20), NULL,
         Val(formatTimestampToIST(100))),
    Seed(Val("bitcoin_testnet"), Val("starknet_sepolia"), Val(11), Val(21), NULL, NULL) }

SeedRow(k, seed) ==
  [id |-> k, inserted_by |-> 0, create_order_id |-> OrderIdOf(k),
   source_swap_id |-> "S0", destination_swap_id |-> "D0", created_at |-> 1,
   source_chain |-> seed.source_chain, destination_chain |-> seed.destination_chain,
   user_init_block_number |-> seed.user_init_block_number,
   cobi_init_block_number |-> seed.cobi_init_block_number,
   user_init |-> seed.user_init, cobi_init |-> seed.cobi_init,
   user_redeem |-> NULL, cobi_redeem |-> NULL, user_refund |-> NULL, cobi_refund |-> NULL]

\* Every table of at most MaxRows rows with ids 1..n and distinct order ids.
Tables(seeds) ==
  UNION { { { SeedRow(k, f[k]) : k \in 1..n } : f \in [1..n -> seeds] } : n \in 0..MaxRows }

CompletedSwaps ==
  [ id \in SwapIds |->
      IF id \in {"S1", "S2"} THEN [redeem_tx_hash |-> Val("0xhash"), refund_tx_hash |-> NULL]
      ELSE [redeem_tx_hash |-> NULL, refund_tx_hash |-> Val("0xhash")] ]

InitObs ==
  [before |-> [r \in Req |-> {}], after |-> [r \in Req |-> {}], prior |-> [r \in Req |-> {}],
   stray |-> [r \in Req |-> FALSE], writers |-> {}, crossed |-> FALSE,
   answers |-> {}, ran |-> [b \in Bf |-> {}], left |-> [b \in Bf |-> {}]]

InitPrograms ==
  /\ txn = NoTxn
  /\ req = [r \in Req |-> IdleReq]
  /\ bf = [b \in Bf |-> IdleBf]
  /\ faults = 0
  /\ obs = InitObs
  /\ app = InitApp

\* The sync handler's start: the legs of order O1 in any state.
InitSync ==
  /\ swaps \in { sw \in [SwapIds -> SwapRows] :
                   sw["S2"] = CompletedSwaps["S2"] /\ sw["D2"] = CompletedSwaps["D2"] }
  /\ order_analysis \in Tables(SyncSeeds)
  /\ order_analysis_id_seq = Cardinality(order_analysis) + 1
  /\ InitPrograms

\* The backfill script's start: rows with init timestamps to resolve.
InitBackfill ==
  /\ swaps = CompletedSwaps
  /\ order_analysis \in Tables(BackfillSeeds)
  /\ order_analysis_id_seq = Cardinality(order_analysis) + 1
  /\ InitPrograms

NextSync == \E r \in Req : getOrders(r)
NextBackfill == \E b \in Bf : updateTimestamps(b)

\* One request and one run of the script, against the same table.
Init == InitBackfill
Next == getOrders(1) \/ updateTimestamps(1)

\* The App alone, whatever its fetches come back with.
InitFrontend ==
  /\ swaps = CompletedSwaps
  /\ order_analysis = {}
  /\ order_analysis_id_seq = 1
  /\ InitPrograms

Spec == Init /\ [][Next]_vars
SpecApp == InitFrontend /\ [][App]_vars
SpecSync == InitSync /\ [][NextSync]_vars
SpecBackfill == InitBackfill /\ [][NextBackfill]_vars

\* ---- what the properties speak of ----
Finished(r) == req[r].pc \in {"done", "crashed"}

\* r ran with no other request between its arrival and its end.
Alone(r) ==
  \A q \in Req \ {r} : req[q].pc = "idle" \/ q \in obs.prior[r] \/ r \in obs.prior[q]

\* The order columns of the rows, without ids and init columns.
Content(tbl) ==
  { [create_order_id |-> x.create_order_id, source_swap_id |-> x.source_swap_id,
     destination_swap_id |-> x.destination_swap_id, created_at |-> x.created_at] : x \in tbl }

\* The orders of stage_db the request's parameters ask for, in the words of
\* the claims: chain pair, window, and a redeem or refund hash on both legs.
HasHash(leg) == swaps[leg].redeem_tx_hash # NULL \/ swaps[leg].refund_tx_hash # NULL
Qualifying(body) ==
  { mo \in matched_orders :
      \E co \in create_orders :
         /\ co.create_id = mo.create_order_id
         /\ co.source_chain = body.source_chain
         /\ co.destination_chain = body.destination_chain
         /\ body.start_time <= co.created_at /\ co.created_at <= body.end_time
         /\ HasHash(mo.source_swap_id) /\ HasHash(mo.destination_swap_id) }

RowsOf(tbl, order) == { x \in tbl : x.create_order_id = order }

\* The number of INSERT statements of r that succeeded.
Inserted(r) == req[r].i - 1

\* r1 then r2: the same parameters, one after the other, each alone, and no
\* statement raised an error.
TwiceInARow(r1, r2) ==
  /\ r1 # r2
  /\ req[r1].pc = "done" /\ req[r2].pc = "done"
  /\ ~MissingField(req[r1].body) /\ ~InvalidTime(req[r1].body)
  /\ req[r2].body = req[r1].body
  /\ r1 \in obs.prior[r2]
  /\ Alone(r1) /\ Alone(r2)
  /\ faults = 0

C2_OneRowPerOrderId ==
  \A x, y \in order_analysis : x.create_order_id = y.create_order_id => x = y

\* C3 as stated has this consequence: when a cycle has failed (it answered
\* 500), no row that cycle inserted is in the table at its end.
C3_FailedCycleLeavesNoRow ==
  \A r \in Req :
    (req[r].pc = "done" /\ req[r].res.status = 500) =>
      \A x \in obs.after[r] : x.inserted_by # r

\* A cycle is in flight from the end of its BEGIN to its COMMIT or ROLLBACK.
InFlight(r) == req[r].pc \in {"delete", "alter", "read", "insert", "commit"}

\* C4 as stated: at most one sync cycle is in flight in every reachable state.
C4_CyclesNeverOverlap == Cardinality({ r \in Req : InFlight(r) }) <= 1

\* C5 as stated: every write of a cycle runs in the transaction that cycle's
\* BEGIN opened, and no COMMIT or ROLLBACK ends a transaction that holds a
\* write of another cycle.
C5_OneCycleOneTransaction ==
  /\ \A r \in Req : ~obs.stray[r]
  /\ ~obs.crossed

OrderIds(tbl) == { x.create_order_id : x \in tbl }

C7_CompletionGating ==
  /\ \A x \in order_analysis \cup txn.ins :
       x.inserted_by # 0 => HasHash(x.source_swap_id) /\ HasHash(x.destination_swap_id)
  /\ \A r \in Req :
       (req[r].pc = "done" /\ req[r].res.status = 200) =>
         /\ \A mo \in Qualifying(req[r].body) :
              Cardinality({ k \in 1..Inserted(r) :
                 req[r].rows[k].create_order_id = mo.create_order_id }) = 1
         /\ \A k \in 1..Inserted(r) :
              \E mo \in Qualifying(req[r].body) :
                 mo.create_order_id = req[r].rows[k].create_order_id

C7_Witness ==
  /\ swaps["S1"].redeem_tx_hash = NULL /\ swaps["S1"].refund_tx_hash # NULL
  /\ swaps["D1"].redeem_tx_hash # NULL /\ swaps["D1"].refund_tx_hash # NULL
  /\ req[1].pc = "done" /\ req[1].res.status = 200 /\ Inserted(1) = 2
  /\ \E x \in order_analysis : x.inserted_by = 1 /\ x.create_order_id = "O1"

\* The row of the table with this id, as a set: empty when it is gone.
RowWithId(tbl, id) == { x \in tbl : x.id = id }

\* C8: no step of a backfill run changes an init column that is not null,
\* whatever the resolver returned.
C8_BackfillNeverClobbers ==
  [][bf' # bf =>
       \A x \in order_analysis :
         \E y \in order_analysis' :
            /\ y.id = x.id
            /\ x.user_init # NULL => y.user_init = x.user_init
            /\ x.cobi_init # NULL => y.cobi_init = x.cobi_init]_vars

\* The run has just sent an UPDATE whose cobi_init parameter differs from the
\* value the row holds and keeps.
C8_Witness ==
  /\ bf[1].pc = "finally" /\ bf[1].outcome = "completed"
  /\ bf[1].cobiInitTimestamp # NULL
  /\ \E x \in RowWithId(order_analysis, bf[1].rows[bf[1].i].id) :
       /\ x.inserted_by = 0
       /\ x.cobi_init # NULL /\ x.cobi_init # bf[1].cobiInitTimestamp
       /\ x.user_init # NULL

\* The resolver has answered alike whenever asked about the same block.
Deterministic ==
  \A a1, a2 \in obs.answers : (a1[1] = a2[1] /\ a1[2] = a2[2]) => a1[3] = a2[3]

\* b1 ran to completion, then b2 did, and no statement raised an error.
RanTwice(b1, b2) ==
  /\ b1 # b2
  /\ bf[b1].pc = "ended" /\ bf[b1].outcome = "completed"
  /\ bf[b2].pc = "ended" /\ bf[b2].outcome = "completed"
  /\ b1 \in obs.ran[b2]
  /\ faults = 0

\* The UPDATE of run b for its current row, as the claim has it: a null init
\* column takes the value the run resolved, a column that is set keeps its
\* value, and nothing else changes.
Patched(b) ==
  LET id == bf[b].rows[bf[b].i].id
  IN { IF x.id = id
       THEN [x EXCEPT !.user_init = IF @ = NULL THEN bf[b].userInitTimestamp ELSE @,
                      !.cobi_init = IF @ = NULL THEN bf[b].cobiInitTimestamp ELSE @]
       ELSE x : x \in order_analysis }

\* A step of run b at its UPDATE in which no statement raised an error.
UpdateStep(b) ==
  bf[b].pc = "update" /\ bf'[b] # bf[b] /\ faults' = faults

\* C9: a null init column is populated by the first run whose resolver gave
\* a value for it and is stable from then on, and with a resolver that
\* answers alike for the same block a second run leaves the table as the
\* first left it.
C9_BackfillIdempotent ==
  /\ [][\A b \in Bf : UpdateStep(b) => order_analysis' = Patched(b)]_vars
  /\ [](\A b1, b2 \in Bf :
          (RanTwice(b1, b2) /\ Deterministic) => obs.left[b2] = obs.left[b1])

C9_Witness ==
  /\ RanTwice(1, 2) /\ Deterministic
  /\ bf[2].rows # <<>>
  /\ \E x \in obs.left[1] : x.user_init # NULL /\ x.cobi_init = NULL
  /\ \E a \in obs.answers : a[3] # NULL

\* C10: when one side of a row does not resolve and the other does, both
\* resolutions have been attempted, the UPDATE patches the resolved side, and
\* the run goes on with the next row; the resolver returns a timestamp or
\* null for every reply that comes.
C10_ResolverFaultIsolation ==
  /\ [](\A b \in Bf :
          bf[b].pc = "update" =>
            LET row == bf[b].rows[bf[b].i]
            IN /\ "user" \in bf[b].calls <=> Truthy(row.user_init_block_number)
               /\ "cobi" \in bf[b].calls <=> Truthy(row.cobi_init_block_number))
  /\ [](\A b \in Bf :
          bf[b].pc \in {"user", "cobi"} =>
            LET row == bf[b].rows[bf[b].i]
                chain == IF bf[b].pc = "user" THEN row.source_chain ELSE row.destination_chain
                blockNumber == IF bf[b].pc = "user" THEN row.user_init_block_number
                               ELSE row.cobi_init_block_number
            IN \A reply \in RepliesFor(chain, blockNumber) :
                 getTimestampForBlock(chain, blockNumber, reply) \in {NULL, Val(100), Val(200)})
  /\ [][\A b \in Bf :
          /\ (bf[b].pc \in {"user", "cobi"} /\ bf'[b] # bf[b] /\ bf'[b].pc # "awaiting") =>
                bf'[b].pc \in {"cobi", "update"} /\ bf'[b].outcome = ""
          /\ (UpdateStep(b) /\ (bf[b].userInitTimestamp = NULL) # (bf[b].cobiInitTimestamp = NULL)) =>
                /\ \A x \in RowWithId(order_analysis, bf[b].rows[bf[b].i].id) :
                     \E y \in RowWithId(order_analysis', x.id) :
                        /\ x.user_init = NULL => y.user_init = bf[b].userInitTimestamp
                        /\ x.cobi_init = NULL => y.cobi_init = bf[b].cobiInitTimestamp
                /\ IF bf[b].i = Len(bf[b].rows)
                   THEN bf'[b].pc = "finally" /\ bf'[b].outcome = "completed"
                   ELSE bf'[b].pc = "user" /\ bf'[b].i = bf[b].i + 1]_vars

\* The first row's user side did not resolve, its cobi side did and is
\* patched, and the run is at its second row.
C10_Witness ==
  /\ bf[1].pc = "user" /\ bf[1].i = 2
  /\ bf[1].calls = {"user", "cobi"}
  /\ bf[1].userInitTimestamp = NULL /\ bf[1].cobiInitTimestamp # NULL
  /\ \E x \in RowWithId(order_analysis, bf[1].rows[1].id) :
       x.user_init = NULL /\ x.cobi_init = bf[1].cobiInitTimestamp

\* The rows of run b's selection the loop has reached.
Reached(b) == IF bf[b].rows = <<>> THEN 0 ELSE bf[b].i

\* C11 as stated: a run whose UPDATE of one row raised an error still goes
\* through every other row it selected, so a run that has ended has reached
\* the last row of its selection.
C11_SiblingsStillProcessed ==
  \A b \in Bf : bf[b].pc = "ended" => Reached(b) = Len(bf[b].rows)

\* The chain pair of an order in stage_db.
ChainsOf(order) ==
  { <<Val(co.source_chain), Val(co.destination_chain)>> :
      co \in { c \in create_orders : c.create_id = order } }

\* C12 as stated has this consequence: every row a sync cycle inserted
\* carries the source chain and the destination chain of its order, the
\* columns the backfill script reads to resolve the row's init timestamps.
C12_SyncedRowsCarryChains ==
  \A x \in order_analysis :
    x.inserted_by # 0 => <<x.source_chain, x.destination_chain>> \in ChainsOf(x.create_order_id)

\* The legs of a row, and the hashes a leg has.
Legs(x) == {x.source_swap_id, x.destination_swap_id} \cap SwapIds
OnlyRefund(leg) == swaps[leg].redeem_tx_hash = NULL /\ swaps[leg].refund_tx_hash # NULL
OnlyRedeem(leg) == swaps[leg].redeem_tx_hash # NULL /\ swaps[leg].refund_tx_hash = NULL

\* C13 as stated has this consequence: a row a sync cycle inserted holds a
\* refund timestamp when one of its legs has only a refund hash (the leg's
\* updated_at), and a redeem timestamp when one of its legs has only a redeem
\* hash.
C13_HashGatesTimestamp ==
  \A x \in order_analysis :
    x.inserted_by # 0 =>
      \A leg \in Legs(x) :
        /\ OnlyRefund(leg) => x.user_refund # NULL \/ x.cobi_refund # NULL
        /\ OnlyRedeem(leg) => x.user_redeem # NULL \/ x.cobi_redeem # NULL

\* r1 failed (it answered 500, or its ROLLBACK raised an error), and r2, with
\* the same parameters, arrived after r1 had ended and has ended too; each ran
\* alone, and the one error raised is the one that made r1 fail (the
\* parameters are such that a cycle can succeed).
RetryOf(r1, r2) ==
  /\ r1 # r2
  /\ ~InvalidTime(req[r1].body)
  /\ req[r1].pc = "crashed" \/ (req[r1].pc = "done" /\ req[r1].res.status = 500)
  /\ req[r2].pc = "done"
  /\ req[r2].body = req[r1].body
  /\ r1 \in obs.prior[r2]
  /\ Alone(r1) /\ Alone(r2)
  /\ faults = 1

\* C14: the cycle that follows a failed cycle, with the same parameters and
\* the same stage_db, succeeds and inserts one row for every qualifying
\* order, those the failed cycle had inserted before it failed included:
\* nothing of the failed cycle is kept that makes the next one skip an order.
C14_RetriedWholesale ==
  \A r1, r2 \in Req :
    RetryOf(r1, r2) =>
      /\ req[r2].res.status = 200
      /\ Inserted(r2) = Cardinality(Qualifying(req[r2].body))
      /\ \A mo \in Qualifying(req[r2].body) :
           Cardinality({ x \in RowsOf(obs.after[r2], mo.create_order_id) : x.inserted_by = r2 }) = 1
      /\ \A x \in obs.after[r2] : x.inserted_by = r2

\* The first cycle failed at its second INSERT; the second inserted both rows.
C14_Witness ==
  /\ RetryOf(1, 2)
  /\ req[1].res.status = 500 /\ Inserted(1) = 1
  /\ Inserted(2) = 2
  /\ Cardinality(obs.before[1]) = 1

\* C15 as stated: a request with a missing or an invalid field is answered
\* 400 on arrival, so its handler never stands at a statement.
C15_NoStoreAccessWhenInvalid ==
  \A r \in Req :
    (req[r].pc # "idle" /\ (MissingField(req[r].body) \/ InvalidTime(req[r].body))) =>
      req[r].pc = "done" /\ req[r].res.status = 400

\* A request with its four fields present and valid that matches no order.
NoData(r) ==
  /\ ~MissingField(req[r].body) /\ ~InvalidTime(req[r].body)
  /\ Qualifying(req[r].body) = {}

\* C16 as stated: a request that matches no order and meets no error is
\* answered with a response of its own, which is neither the success
\* response (200) nor the validation error (400).
C16_NoDataIsDistinct ==
  \A r \in Req :
    (req[r].pc = "done" /\ NoData(r) /\ req[r].res.status # 500) =>
      req[r].res.status \notin {200, 400}

\* C17 as stated has this consequence: a handler that has ended has sent a
\* response, and when it ended in its error path the response is 500
\* 'Database operation failed'.
C17_EveryRequestAnswered ==
  \A r \in Req :
    /\ Finished(r) => req[r].res.status \in {200, 400, 500}
    /\ req[r].pc = "crashed" =>
         req[r].res = [status |-> 500, text |-> "Database operation failed", count |-> 0]

\* C18 as stated has this consequence: a run that has started and has not
\* ended can take its next step, whatever the RPC calls did; it never waits
\* for a reply that does not come.
C18_BackfillGoesOn ==
  \A b \in Bf : bf[b].pc \in {"idle", "ended"} \/ ENABLED updateTimestamps(b)

\* The row run b is at, as the table holds it now (a set: empty when gone).
CurrentRow(b) == RowWithId(order_analysis, bf[b].rows[bf[b].i].id)

\* C19 as stated: a step in which run b invokes the resolver for a side of
\* its row is taken only when the row's init timestamp of that side is null.
C19_ResolveOnlyMissing ==
  [][\A b \in Bf :
       /\ (bf[b].pc = "user" /\ bf'[b] # bf[b]
             /\ Truthy(bf[b].rows[bf[b].i].user_init_block_number)) =>
            \A x \in CurrentRow(b) : x.user_init = NULL
       /\ (bf[b].pc = "cobi" /\ bf'[b] # bf[b]
             /\ Truthy(bf[b].rows[bf[b].i].cobi_init_block_number)) =>
            \A x \in CurrentRow(b) : x.cobi_init = NULL]_vars

\* C20 as stated: every UPDATE a run sends changes the table, that is, sets
\* an init column of its row that was null.
C20_NoNoOpWrites ==
  [][\A b \in Bf :
       (UpdateStep(b) /\ ShouldUpdate(bf[b].userInitTimestamp, bf[b].cobiInitTimestamp)) =>
         order_analysis' # order_analysis]_vars

\* A row without its two init columns.
Frame(x) == [x EXCEPT !.user_init = NULL, !.cobi_init = NULL]

\* The rows of the table a step changed or removed.
Touched == { x \in order_analysis : x \notin order_analysis' }

\* C21: a step of a backfill run leaves the number of rows and every column
\* but user_init and cobi_init of every row as they were, and changes no row
\* except, at its UPDATE, the one whose id the run selected.
C21_BackfillFrame ==
  [][\A b \in Bf :
       bf'[b] # bf[b] =>
         /\ Cardinality(order_analysis') = Cardinality(order_analysis)
         /\ { Frame(x) : x \in order_analysis' } = { Frame(x) : x \in order_analysis }
         /\ \A x \in Touched : bf[b].pc = "update" /\ x.id = bf[b].rows[bf[b].i].id
         /\ Cardinality(Touched) <= 1]_vars

\* The run has patched the first of its two rows and the other row is as it
\* was.
C21_Witness ==
  /\ bf[1].pc = "user" /\ bf[1].i = 2
  /\ Cardinality(order_analysis) = 2
  /\ \E x \in RowWithId(order_analysis, bf[1].rows[1].id) :
       x.user_init # NULL /\ x.user_init = bf[1].userInitTimestamp
  /\ \E y \in RowWithId(order_analysis, bf[1].rows[2].id) :
       y.inserted_by = 0 /\ y.user_init = NULL /\ y.cobi_init = NULL

\* The order columns of the qualifying orders of stage_db.
QualifyingRows(body) ==
  { [create_order_id |-> mo.create_order_id, source_swap_id |-> mo.source_swap_id,
     destination_swap_id |-> mo.destination_swap_id, created_at |-> co.created_at] :
      <<co, mo>> \in { <<c, m>> \in create_orders \X Qualifying(body) :
                         c.create_id = m.create_order_id } }

\* r ran alone and answered 200.
CommittedAlone(r) ==
  req[r].pc = "done" /\ req[r].res.status = 200 /\ Alone(r)

\* C22: when a request has run alone and committed, the table at its COMMIT
\* holds exactly one row for each qualifying order of stage_db (chain pair,
\* created_at within the inclusive window, a redeem or refund hash on both
\* legs) and no other row, and the count in the success message is the
\* number of rows.
C22_SuccessfulCycleResult ==
  \A r \in Req :
    CommittedAlone(r) =>
      /\ Content(obs.after[r]) = QualifyingRows(req[r].body)
      /\ Cardinality(obs.after[r]) = Cardinality(QualifyingRows(req[r].body))
      /\ req[r].res.count = Cardinality(obs.after[r])

\* A lone request over the window [1, 3], with orders at both of its ends,
\* has replaced the two rows the table held.
C22_Witness ==
  /\ CommittedAlone(1) /\ req[2].pc = "idle"
  /\ req[1].body.start_time = 1 /\ req[1].body.end_time = 3
  /\ Cardinality(obs.before[1]) = 2
  /\ req[1].res.count = 2
  /\ \A x \in order_analysis : x.inserted_by = 1

\* C23 as stated: whenever the App holds an error, its success message,
\* totalOrders and averages are all null.
C23_NoErrorNextToResults ==
  app.error # NULL =>
    app.message = NULL /\ app.totalOrders = NULL /\ app.averages = NULL

====
